---------------------------- MODULE Spec2Model ----------------------------
(***************************************************************************)
(* Webhook Inbox: an Express application over one SQLite table `events`.   *)
(* The repository holds three variants of the same server, which differ    *)
(* in the SQLite driver only:                                              *)
(*   "sqlite3"        src/server.js            (callback API)              *)
(*   "sqlite"         src/unnamed/part_001:1   (promise API, async/await)  *)
(*   "better-sqlite3" src/unnamed/part_001:150 (synchronous API)           *)
(* Texts (TEXT columns, query parameters, payloads) are sequences of       *)
(* one-character strings, so that LIKE, parseInt and the comparison of     *)
(* timestamps are computed character by character.                         *)
(***************************************************************************)
EXTENDS Integers, Sequences, FiniteSets, TLC

VARIABLES backend, expressMajor, production, now, events, last, stats

vars == <<backend, expressMajor, production, now, events, last, stats>>

(***************************************************************************)
(* Bounds of the model.                                                    *)
(***************************************************************************)
\* number of distinct values uuidv4() is drawn from
NumIds == 2
\* rows the table may hold
MaxEvents == 2
\* clock readings after boot
ClockSpan == 2

(***************************************************************************)
(* Values of the JavaScript runtime.                                       *)
(***************************************************************************)
\* A JavaScript number: NaN, or an integer
NaN == [nan |-> TRUE, v |-> 0]

Num(n) == [nan |-> FALSE, v |-> n]

DigitChars == <<"0", "1", "2", "3", "4", "5", "6", "7", "8", "9">>

IsDigit(c) == \E i \in 1..10 : DigitChars[i] = c

DigitValue(c) == (CHOOSE i \in 1..10 : DigitChars[i] = c) - 1

Min(a, b) == IF a < b THEN a ELSE b

\* Math.min(x, y): NaN if an argument is NaN
MathMin(x, y) == IF x.nan \/ y.nan THEN NaN ELSE Num(Min(x.v, y.v))

\* Math.max(x, y): NaN if an argument is NaN
MathMax(x, y) ==
    IF x.nan \/ y.nan THEN NaN ELSE Num(IF x.v > y.v THEN x.v ELSE y.v)

\* x || d for a number x: 0 and NaN are falsy
OrElse(x, d) == IF x.nan \/ x.v = 0 THEN Num(d) ELSE x

RECURSIVE StripWs(_)
StripWs(s) == IF s # <<>> /\ Head(s) = " " THEN StripWs(Tail(s)) ELSE s

RECURSIVE DigitsPrefix(_)
DigitsPrefix(s) ==
    IF s # <<>> /\ IsDigit(Head(s))
    THEN <<Head(s)>> \o DigitsPrefix(Tail(s))
    ELSE <<>>

RECURSIVE DecimalValue(_)
DecimalValue(d) ==
    IF d = <<>> THEN 0
    ELSE 10 * DecimalValue(SubSeq(d, 1, Len(d) - 1)) + DigitValue(d[Len(d)])

\* parseInt(s, 10): leading blanks, an optional sign, the longest run of
\* digits; NaN when there is no digit. What follows the digits is ignored.
ParseInt(s) ==
    LET t == StripWs(s)
        signed == t # <<>> /\ Head(t) \in {"+", "-"}
        u == IF signed THEN Tail(t) ELSE t
        d == DigitsPrefix(u)
    IN  IF d = <<>> THEN NaN
        ELSE IF signed /\ Head(t) = "-" THEN Num(0 - DecimalValue(d))
        ELSE Num(DecimalValue(d))

RECURSIVE PadDigits(_, _)
PadDigits(n, w) ==
    IF w = 0 THEN <<>>
    ELSE PadDigits(n \div 10, w - 1) \o <<DigitChars[(n % 10) + 1]>>

(***************************************************************************)
(* Time. The clock counts days. Date.prototype.toISOString                 *)
(* writes a date of the years 0000..9999 in a fixed width with zero-padded *)
(* fields, a date outside them with a sign and a wider year, and throws a  *)
(* RangeError for an invalid date (NaN, or beyond the range of Date). The  *)
(* model keeps the three forms: two digits for the readings 0..99, a sign  *)
(* and three digits beyond, an invalid date for NaN and beyond 999.        *)
(***************************************************************************)
\* 24 * 3600 * 1000 ms, in the unit of the clock
TicksPerDay == 1

\* Date.now() at boot: late enough for now - 7 days to be a four-digit year
BootTime == 7 * TicksPerDay + 1

MaxNow == BootTime + ClockSpan

\* new Date(t) is a valid date; toISOString throws a RangeError otherwise
ValidDate(t) == ~t.nan /\ t.v <= 999 /\ t.v >= 0 - 999

RECURSIVE Decimal(_)
Decimal(n) ==
    IF n < 10 THEN <<DigitChars[n + 1]>>
    ELSE Decimal(n \div 10) \o <<DigitChars[(n % 10) + 1]>>

\* a toISOString that does not pad its fields
ToISOStringUnpadded(t) ==
    IF t.v < 0 THEN <<"-">> \o Decimal(0 - t.v) ELSE Decimal(t.v)

\* Date.prototype.toISOString of a valid date
ToISOString(t) ==
    IF t.v < 0 THEN <<"-">> \o PadDigits(0 - t.v, 3)
    ELSE IF t.v > 99 THEN <<"+">> \o PadDigits(t.v, 3)
    ELSE PadDigits(t.v, 2)

\* the code point of a character of a timestamp
CharCode(c) ==
    IF c = "+" THEN 43 ELSE IF c = "-" THEN 45 ELSE 48 + DigitValue(c)

\* a < b for TEXT values under SQLite's BINARY collation (memcmp)
RECURSIVE TextLess(_, _)
TextLess(a, b) ==
    IF b = <<>> THEN FALSE
    ELSE IF a = <<>> THEN TRUE
    ELSE IF Head(a) # Head(b) THEN CharCode(Head(a)) < CharCode(Head(b))
    ELSE TextLess(Tail(a), Tail(b))

(***************************************************************************)
(* LIKE. SQLite's LIKE folds the case of ASCII letters, `%' stands for any *)
(* run of characters and `_' for any one character; the statements give no *)
(* ESCAPE character.                                                       *)
(***************************************************************************)
UpperChars ==
    <<"A", "B", "C", "D", "E", "F", "G", "H", "I", "J", "K", "L", "M">>
        \o <<"N", "O", "P", "Q", "R", "S", "T", "U", "V", "W", "X", "Y", "Z">>

LowerChars ==
    <<"a", "b", "c", "d", "e", "f", "g", "h", "i", "j", "k", "l", "m">>
        \o <<"n", "o", "p", "q", "r", "s", "t", "u", "v", "w", "x", "y", "z">>

FoldCase(c) ==
    IF \E i \in 1..Len(UpperChars) : UpperChars[i] = c
    THEN LowerChars[CHOOSE i \in 1..Len(UpperChars) : UpperChars[i] = c]
    ELSE c

RECURSIVE Like(_, _)
Like(s, p) ==
    IF p = <<>> THEN s = <<>>
    ELSE IF p = <<"%">> THEN TRUE
    ELSE IF Head(p) = "%"
         THEN \E k \in 0..Len(s) : Like(SubSeq(s, k + 1, Len(s)), Tail(p))
    ELSE /\ s # <<>>
         /\ (Head(p) = "_" \/ FoldCase(Head(p)) = FoldCase(Head(s)))
         /\ Like(Tail(s), Tail(p))

\* substr(body, 1, n) and String.prototype.slice(0, n)
Prefix(s, n) == SubSeq(s, 1, Min(n, Len(s)))


(***************************************************************************)
(* Inbound requests of POST /api/events.                                   *)
(*   source  the source query parameter ("" when absent or empty)          *)
(*   ctype   the content-type header ("" when the request has none)        *)
(*   tag     the value of one more header, x-tag                           *)
(*   text    the payload                                                   *)
(*   bytes   the payload's length (content-length); a payload longer than  *)
(*           its text stands for the text followed by padding              *)
(***************************************************************************)
AppJson == "application/json"
AppForm == "application/x-www-form-urlencoded"
TextPlain == "text/plain"
OctetStream == "application/octet-stream"

CharsOf(ctype) ==
    CASE ctype = AppJson -> <<"a", "p", "p", "l", "i", "c", "a", "t", "i", "o", "n", "/", "j", "s", "o", "n">>
      [] ctype = AppForm ->
            <<"a", "p", "p", "l", "i", "c", "a", "t", "i", "o", "n", "/", "x", "-", "w", "w", "w">>
            \o <<"-", "f", "o", "r", "m", "-", "u", "r", "l", "e", "n", "c", "o", "d", "e", "d">>
      [] ctype = TextPlain -> <<"t", "e", "x", "t", "/", "p", "l", "a", "i", "n">>
      [] OTHER -> <<>>

\* bytes.parse("5mb"), the limit of express.json and express.raw
FiveMb == 5 * 1024 * 1024

\* bytes.parse("100kb"), body-parser's default limit (express.urlencoded)
DefaultLimit == 100 * 1024

\* JSON.stringify(req.headers)
StringifyHeaders(r) ==
    (IF r.ctype = ""
     THEN <<"{", "\"", "x", "-", "t", "a", "g", "\"", ":", "\"">>
     ELSE <<"{", "\"", "c", "o", "n", "t", "e", "n", "t", "-", "t", "y", "p", "e", "\"", ":", "\"">>
          \o CharsOf(r.ctype) \o <<"\"", ",", "\"", "x", "-", "t", "a", "g", "\"", ":", "\"">>)
    \o r.tag \o <<"\"", "}">>

(***************************************************************************)
(* Values of req.body.                                                     *)
(***************************************************************************)
BodyUndefined == [kind |-> "undefined", text |-> <<>>]
BodyObject == [kind |-> "object", text |-> <<>>]
BodyArray(joined) == [kind |-> "array", text |-> joined]
BodyBuffer(text) == [kind |-> "buffer", text |-> text]
SyntaxError == [kind |-> "SyntaxError", text |-> <<>>]

\* JSON.parse under body-parser's strict mode, for the payloads of the
\* model: an empty object, an array of at most one number; anything else
\* here is malformed. An array's text is what String(array) gives.
JsonParse(text) ==
    IF text = <<"{", "}">> THEN BodyObject
    ELSE IF text = <<"[", "]">> THEN BodyArray(<<>>)
    ELSE IF /\ Len(text) >= 3
            /\ Head(text) = "["
            /\ text[Len(text)] = "]"
            /\ \A i \in 2..(Len(text) - 1) : IsDigit(text[i])
         THEN BodyArray(SubSeq(text, 2, Len(text) - 1))
    ELSE SyntaxError

\* typeis.hasBody(req)
HasBody(r) == r.bytes > 0

\* The start of every body-parser 1.x middleware (express 4):
\* req.body = req.body || {}. body-parser 2.x (express 5) leaves it.
InitBody(st) ==
    IF expressMajor = 4 /\ st.body = BodyUndefined
    THEN [st EXCEPT !.body = BodyObject]
    ELSE st

\* express.json({ limit: "5mb" })
JsonMiddleware(r, st) ==
    IF st.read THEN st
    ELSE LET s == InitBody(st) IN
         IF ~HasBody(r) \/ r.ctype # AppJson THEN s
         ELSE IF r.bytes > FiveMb THEN [s EXCEPT !.err = 413]
         ELSE IF JsonParse(r.text) = SyntaxError THEN [s EXCEPT !.err = 400]
         ELSE [s EXCEPT !.read = TRUE, !.body = JsonParse(r.text)]

\* express.urlencoded({ extended: true }): any text parses to an object
UrlencodedMiddleware(r, st) ==
    IF st.read THEN st
    ELSE LET s == InitBody(st) IN
         IF ~HasBody(r) \/ r.ctype # AppForm THEN s
         ELSE IF r.bytes > DefaultLimit THEN [s EXCEPT !.err = 413]
         ELSE [s EXCEPT !.read = TRUE, !.body = BodyObject]

\* express.raw({ type: "*/*", limit: "5mb" }): matches any content type,
\* not a request without one
RawMiddleware(r, st) ==
    IF st.read THEN st
    ELSE LET s == InitBody(st) IN
         IF ~HasBody(r) \/ r.ctype = "" THEN s
         ELSE IF r.bytes > FiveMb THEN [s EXCEPT !.err = 413]
         ELSE [s EXCEPT !.read = TRUE, !.body = BodyBuffer(r.text)]

\* the middleware in front of the handler of POST /api/events, in order
IngestMiddleware(r) ==
    LET s0 == [read |-> FALSE, body |-> BodyUndefined, err |-> 0]
        s1 == JsonMiddleware(r, s0)
        s2 == IF s1.err # 0 THEN s1 ELSE UrlencodedMiddleware(r, s1)
    IN  IF s2.err # 0 THEN s2 ELSE RawMiddleware(r, s2)

ObjectObject == 
    <<"[", "o", "b", "j", "e", "c", "t", " ", "O", "b", "j", "e", "c", "t", "]">>

\* Buffer.isBuffer(req.body) ? req.body.toString("utf8")
\*                           : String(req.body || "")
BodyText(b) ==
    CASE b.kind = "buffer" -> b.text
      [] b.kind = "undefined" -> <<>>
      [] b.kind = "object" -> ObjectObject
      [] b.kind = "array" -> b.text

\* the event the handler builds
BuildEvent(r, id, b, t) ==
    [id |-> id,
     source |-> r.source,
     content_type |-> IF r.ctype = "" THEN OctetStream ELSE r.ctype,
     headers |-> StringifyHeaders(r),
     body |-> BodyText(b),
     received_at |-> ToISOString(Num(t))]

(***************************************************************************)
(* The table. Rows are kept in rowid order.                                *)
(***************************************************************************)
HasId(rows, id) == \E i \in 1..Len(rows) : rows[i].id = id

\* an INSERT into a table whose id is no key
InsertFailsNoKey(rows, row, ioError) == ioError

\* INSERT INTO events ...: id is the PRIMARY KEY
InsertFails(rows, row, ioError) == ioError \/ HasId(rows, row.id)

InsertRow(rows, row) == Append(rows, row)

\* SELECT ... FROM events WHERE id = ?
SelectById(rows, id) == SelectSeq(rows, LAMBDA r : r.id = id)

(***************************************************************************)
(* Answers. status 0 stands for a request that is never answered; msg      *)
(* tells whether the answer carries the message of the error.              *)
(***************************************************************************)
\* res.status(500).json({ error: err.message })
JsonError == [status |-> 500, msg |-> TRUE]

\* Express's default error handler: the status of the error (500 when it
\* has none) and, outside production, its stack
DefaultErrorHandler(status) == [status |-> status, msg |-> ~production]

Unanswered == [status |-> 0, msg |-> FALSE]

\* An exception of the handler. express 4 does not see the rejection of
\* an async handler; express 5 hands it to the error handler.
Thrown ==
    IF backend = "sqlite" /\ expressMajor = 4
    THEN Unanswered
    ELSE DefaultErrorHandler(500)

\* A failed statement: the callback's err in src/server.js, an exception
\* in the two other variants
StoreError == IF backend = "sqlite3" THEN JsonError ELSE Thrown

NoOutput == [none |-> TRUE]

\* the answer to a request; storeErr tells whether a statement failed
Reply(op, req, status, msg, out, storeErr) ==
    [op |-> op, req |-> req, status |-> status, msg |-> msg, out |-> out,
     storeErr |-> storeErr]

ErrorReply(op, req, e, storeErr) ==
    Reply(op, req, e.status, e.msg, NoOutput, storeErr)

(***************************************************************************)
(* POST /api/events                                                        *)
(***************************************************************************)
Ingest(r, id, ioError) ==
    /\ Len(events) < MaxEvents
    /\ LET st == IngestMiddleware(r)
           event == BuildEvent(r, id, st.body, now)
       IN  IF st.err # 0
           THEN /\ events' = events
                /\ last' = ErrorReply("ingest", r, DefaultErrorHandler(st.err),
                                      FALSE)
           ELSE IF InsertFails(events, event, ioError)
           THEN /\ events' = events
                /\ last' = ErrorReply("ingest", r, StoreError, TRUE)
           ELSE /\ events' = InsertRow(events, event)
                /\ last' = Reply("ingest", r, 201, FALSE,
                                 [id |-> event.id,
                                  received_at |-> event.received_at], FALSE)
    /\ UNCHANGED <<backend, expressMajor, production, now, stats>>

(***************************************************************************)
(* GET /api/events/:id                                                     *)
(***************************************************************************)
GetById(id, ioError) ==
    /\ events' = events
    /\ LET rows == SelectById(events, id) IN
       last' = IF ioError THEN ErrorReply("get", [id |-> id], StoreError, TRUE)
               ELSE IF rows = <<>>
               THEN Reply("get", [id |-> id], 404, FALSE, NoOutput, FALSE)
               ELSE Reply("get", [id |-> id], 200, FALSE, rows[1], FALSE)
    /\ UNCHANGED <<backend, expressMajor, production, now, stats>>


(***************************************************************************)
(* GET /api/events                                                         *)
(***************************************************************************)
\* a query parameter the request does not carry
Absent == <<"undefined">>

\* const { p = d } = req.query
Default(p, d) == IF p = Absent THEN d ELSE p

\* Math.min(parseInt(limit, 10) || 50, 200)
EffectiveLimit(limit) ==
    MathMin(OrElse(ParseInt(Default(limit, <<"5", "0">>)), 50), Num(200)).v

\* parseInt(offset, 10) || 0
EffectiveOffset(offset) == OrElse(ParseInt(Default(offset, <<"0">>)), 0).v

\* WHERE (? = '' OR source = ?)
\*   AND (? = '' OR body LIKE '%' || ? || '%' OR headers LIKE '%' || ? || '%')
Matches(row, source, q) ==
    /\ (source = "" \/ row.source = source)
    /\ \/ q = <<>>
       \/ Like(row.body, <<"%">> \o q \o <<"%">>)
       \/ Like(row.headers, <<"%">> \o q \o <<"%">>)

\* ORDER BY received_at DESC: the orders of rows the statement may give
\* (rows of equal received_at come in an order SQLite does not fix)
OrderedDesc(rows) ==
    LET n == Len(rows)
        perms == {f \in [1..n -> 1..n] : \A i, j \in 1..n : i # j => f[i] # f[j]}
    IN  {[i \in 1..n |-> rows[f[i]]] : f \in
            {g \in perms : \A i, j \in 1..n :
                i < j => ~TextLess(rows[g[i]].received_at,
                                   rows[g[j]].received_at)}}

\* LIMIT ? OFFSET ?: a negative limit is no limit, a negative offset is 0
LimitOffset(rows, lim, off) ==
    LET o == IF off < 0 THEN 0 ELSE off
        hi == IF lim < 0 THEN Len(rows) ELSE Min(o + lim, Len(rows))
    IN  SubSeq(rows, o + 1, hi)

\* SELECT id, source, content_type, received_at, substr(body,1,200) AS preview
PreviewRow(row) ==
    [id |-> row.id, source |-> row.source, content_type |-> row.content_type,
     received_at |-> row.received_at, preview |-> Prefix(row.body, 200)]

List(source, q, limit, offset, ioError) ==
    /\ events' = events
    /\ LET lim == EffectiveLimit(limit)
           off == EffectiveOffset(offset)
           req == [source |-> source, q |-> q, limit |-> limit,
                   offset |-> offset]
           matching == SelectSeq(events, LAMBDA r : Matches(r, source, q))
       IN  IF ioError
           THEN last' = ErrorReply("list", req, StoreError, TRUE)
           ELSE \E ordered \in OrderedDesc(matching) :
                  LET page == LimitOffset(ordered, lim, off) IN
                  last' = Reply("list", req, 200, FALSE,
                                [items |-> [i \in 1..Len(page) |->
                                               PreviewRow(page[i])],
                                 limit |-> lim, offset |-> off], FALSE)
    /\ UNCHANGED <<backend, expressMajor, production, now, stats>>

(***************************************************************************)
(* GET /api/events/:id/preview                                             *)
(***************************************************************************)
\* JSON.parse(row.body) succeeds, for the texts a body of the model can be
ParsesAsJson(text) ==
    \/ JsonParse(text) # SyntaxError
    \/ text # <<>> /\ \A i \in 1..Len(text) : IsDigit(text[i])

Preview(id, ioError) ==
    /\ events' = events
    /\ LET rows == SelectById(events, id)
           row == rows[1]
       IN  last' =
             IF ioError
             THEN ErrorReply("preview", [id |-> id], StoreError, TRUE)
             ELSE IF rows = <<>>
             THEN Reply("preview", [id |-> id], 404, FALSE, NoOutput, FALSE)
             ELSE IF row.content_type = AppJson /\ ParsesAsJson(row.body)
             THEN Reply("preview", [id |-> id], 200, FALSE,
                        [id |-> row.id, content_type |-> row.content_type,
                         parsed |-> row.body], FALSE)
             ELSE Reply("preview", [id |-> id], 200, FALSE,
                        [id |-> row.id, content_type |-> row.content_type,
                         text |-> Prefix(row.body, 2000)], FALSE)
    /\ UNCHANGED <<backend, expressMajor, production, now, stats>>

(***************************************************************************)
(* GET /api/health, GET /api/ping                                          *)
(***************************************************************************)
Health ==
    /\ last' = Reply("health", NoOutput, 200, FALSE, [ok |-> TRUE], FALSE)
    /\ UNCHANGED <<backend, expressMajor, production, now, events, stats>>

Ping ==
    /\ last' = Reply("ping", NoOutput, 200, FALSE, [ping |-> TRUE], FALSE)
    /\ UNCHANGED <<backend, expressMajor, production, now, events, stats>>

(***************************************************************************)
(* GET /api/stats: two statements. With better-sqlite3 both run in one     *)
(* turn of the event loop; with sqlite3 and sqlite the second is issued    *)
(* from the callback (after the await) of the first, and the statements of *)
(* other requests run in between.                                          *)
(***************************************************************************)
\* SELECT COUNT(*) AS c FROM events
CountAll(rows) == Len(rows)

CountOf(rows, source) ==
    Len(SelectSeq(rows, LAMBDA r : r.source = source))

\* SELECT source, COUNT(*) AS c FROM events GROUP BY source ORDER BY c DESC:
\* the orders of groups the statement may give
GroupBySource(rows) ==
    LET groups == {rows[i].source : i \in 1..Len(rows)}
        n == Cardinality(groups)
    IN  {s \in [1..n -> {[source |-> g, c |-> CountOf(rows, g)] : g \in groups}] :
            /\ \A i, j \in 1..n : i # j => s[i].source # s[j].source
            /\ \A i, j \in 1..n : i < j => s[i].c >= s[j].c}

Idle == [pending |-> FALSE, total |-> 0]

\* the handler up to the first statement's result
StatsCount(ioError) ==
    /\ backend # "better-sqlite3"
    /\ ~stats.pending
    /\ IF ioError
       THEN /\ last' = ErrorReply("stats", NoOutput, StoreError, TRUE)
            /\ stats' = stats
       ELSE /\ stats' = [pending |-> TRUE, total |-> CountAll(events)]
            /\ last' = last
    /\ UNCHANGED <<backend, expressMajor, production, now, events>>

\* the second statement and the answer
StatsGroup(ioError) ==
    /\ backend # "better-sqlite3"
    /\ stats.pending
    /\ stats' = Idle
    /\ IF ioError
       THEN last' = ErrorReply("stats", NoOutput, StoreError, TRUE)
       ELSE \E bySource \in GroupBySource(events) :
              last' = Reply("stats", NoOutput, 200, FALSE,
                            [total_events |-> stats.total,
                             by_source |-> bySource], FALSE)
    /\ UNCHANGED <<backend, expressMajor, production, now, events>>

\* the whole handler, with better-sqlite3
Stats(ioError) ==
    /\ backend = "better-sqlite3"
    /\ IF ioError
       THEN last' = ErrorReply("stats", NoOutput, StoreError, TRUE)
       ELSE \E bySource \in GroupBySource(events) :
              last' = Reply("stats", NoOutput, 200, FALSE,
                            [total_events |-> CountAll(events),
                             by_source |-> bySource], FALSE)
    /\ UNCHANGED <<backend, expressMajor, production, now, events, stats>>

(***************************************************************************)
(* POST /api/admin/purge                                                   *)
(***************************************************************************)
\* Math.max(1, parseInt(req.body?.days ?? "7", 10))
EffectiveDays(days) == MathMax(Num(1), ParseInt(Default(days, <<"7">>)))

\* Date.now() - days * 24 * 3600 * 1000
CutoffTime(t, days) ==
    IF days.nan THEN NaN ELSE Num(t - days.v * TicksPerDay)

\* a DELETE whose comparison is <= instead of <
DeleteUpTo(rows, cutoff) ==
    SelectSeq(rows, LAMBDA r : TextLess(cutoff, r.received_at))

\* DELETE FROM events WHERE received_at < ?
DeleteBefore(rows, cutoff) ==
    SelectSeq(rows, LAMBDA r : ~TextLess(r.received_at, cutoff))

Purge(days, ioError) ==
    /\ LET req == [days |-> days, at |-> now,
                   again |-> /\ last.op = "purge"
                             /\ last.status = 200
                             /\ last.req.days = days]
           time == CutoffTime(now, EffectiveDays(days))
           cutoff == ToISOString(time)
           kept == DeleteBefore(events, cutoff)
       IN  IF ~ValidDate(time)
           THEN /\ events' = events
                /\ last' = ErrorReply("purge", req, Thrown, FALSE)
           ELSE IF ioError
           THEN /\ events' = events
                /\ last' = ErrorReply("purge", req, StoreError, TRUE)
           ELSE /\ events' = kept
                /\ last' = Reply("purge", req, 200, FALSE,
                                 [deleted_events |-> Len(events) - Len(kept),
                                  cutoff |-> cutoff], FALSE)
    /\ UNCHANGED <<backend, expressMajor, production, now, stats>>

(***************************************************************************)
(* The clock                                                               *)
(***************************************************************************)
Tick ==
    /\ now < MaxNow
    /\ now' = now + 1
    /\ UNCHANGED <<backend, expressMajor, production, events, last, stats>>


(***************************************************************************)
(* Inputs                                                                  *)
(***************************************************************************)
Ids == 1..NumIds

\* ids a client may ask for: those uuidv4() gives, and one it never gives
AskedIds == 0..NumIds

Request(source, ctype, text, bytes) ==
    [source |-> source, ctype |-> ctype, tag |-> <<"B">>, text |-> text,
     bytes |-> bytes]

\* payloads: JSON texts, a malformed JSON text, a text with a LIKE
\* wildcard, and payloads of the sizes around the two limits
Payloads ==
    {<<t, Len(t)>> : t \in {<<"{", "}">>, <<"[", "7", "]">>,
                            <<"{", "b">>, <<"a", "_", "b">>}}
    \cup {<<<<"a">>, n>> : n \in {DefaultLimit + 1, FiveMb, FiveMb + 1}}

ContentTypes == {"", AppJson, AppForm, TextPlain}

AllRequests ==
    {Request("", c, p[1], p[2]) : c \in ContentTypes, p \in Payloads}

\* requests of the kinds a sender of webhooks makes, for the
\* specifications that are not about the ingestion of a payload
CoreRequests ==
    {Request("github", TextPlain, <<"a", "c", "b">>, 3),
     Request("stripe", TextPlain, <<"%">>, 1),
     Request("", AppJson, <<"{", "}">>, 2)}

OneRequest == {Request("github", TextPlain, <<"a", "c", "b">>, 3)}

Queries == {<<>>, <<"a", "_", "b">>, <<"C">>}

Limits == {Absent, <<>>, <<"0">>, <<"1">>, <<"-", "5">>, <<"5", "0", "0">>,
           <<"a", "b", "c">>}

Offsets == {Absent, <<"1">>, <<"-", "3">>}

\* req.body?.days; in days of the model's clock "99" reaches back before the
\* year 0000 and "9999" beyond the range of Date
DaysInputs == {Absent, <<"1">>, <<"2">>, <<"0">>, <<"-", "3">>,
               <<"a", "b", "c">>, <<"9", "9">>, <<"9", "9", "9", "9">>}

(***************************************************************************)
(* Specifications                                                          *)
(***************************************************************************)
Boot ==
    [op |-> "boot", req |-> NoOutput, status |-> 0, msg |-> FALSE,
     out |-> NoOutput, storeErr |-> FALSE]

\* the server has started on a new data.db
Init ==
    /\ backend \in {"sqlite3", "sqlite", "better-sqlite3"}
    /\ expressMajor \in {4, 5}
    /\ production \in BOOLEAN
    /\ now = BootTime
    /\ events = <<>>
    /\ last = Boot
    /\ stats = Idle

\* the server runs express 4 outside production
InitDevelopment == Init /\ expressMajor = 4 /\ ~production

\* every endpoint
Next ==
    \/ \E r \in OneRequest, id \in Ids, e \in BOOLEAN : Ingest(r, id, e)
    \/ \E id \in AskedIds, e \in BOOLEAN : GetById(id, e)
    \/ \E id \in AskedIds, e \in BOOLEAN : Preview(id, e)
    \/ \E l \in {Absent, <<"1">>}, e \in BOOLEAN :
            List("", <<>>, l, Absent, e)
    \/ Health
    \/ Ping
    \/ \E e \in BOOLEAN : StatsCount(e)
    \/ \E e \in BOOLEAN : StatsGroup(e)
    \/ \E e \in BOOLEAN : Stats(e)
    \/ \E d \in {<<"1">>, <<"a", "b", "c">>}, e \in BOOLEAN : Purge(d, e)
    \/ Tick

Spec == Init /\ [][Next]_vars

\* every endpoint, on express 4 outside production
SpecDevelopment == InitDevelopment /\ [][Next]_vars

\* ingestion and lookup, over every request of the model
NextIngest ==
    \/ \E r \in AllRequests, id \in Ids : Ingest(r, id, FALSE)
    \/ \E id \in AskedIds : GetById(id, FALSE)
    \/ Tick

\* the server runs outside production
InitIngest == Init /\ ~production

SpecIngest == InitIngest /\ [][NextIngest]_vars

\* listing, over the filters and over every value of limit and offset
NextList ==
    \/ \E r \in CoreRequests, id \in Ids : Ingest(r, id, FALSE)
    \/ \E src \in {"", "github"}, q \in Queries, l \in {Absent, <<"1">>} :
            List(src, q, l, Absent, FALSE)
    \/ \E l \in Limits, o \in Offsets : List("", <<>>, l, o, FALSE)
    \/ Tick

SpecList == InitDevelopment /\ [][NextList]_vars

\* purge, over every value of days
NextPurge ==
    \/ \E r \in OneRequest, id \in Ids : Ingest(r, id, FALSE)
    \/ \E d \in DaysInputs, e \in BOOLEAN : Purge(d, e)
    \/ Tick

SpecPurge == Init /\ [][NextPurge]_vars

\* statistics among inserts and purges
NextStats ==
    \/ \E r \in CoreRequests, id \in Ids : Ingest(r, id, FALSE)
    \/ Purge(<<"1">>, FALSE)
    \/ StatsCount(FALSE)
    \/ StatsGroup(FALSE)
    \/ Stats(FALSE)
    \/ Tick

SpecStats == InitDevelopment /\ [][NextStats]_vars


(***************************************************************************)
(* Properties                                                              *)
(***************************************************************************)
Rows(rows) == {rows[i] : i \in 1..Len(rows)}

IdsUnique(rows) ==
    \A i, j \in 1..Len(rows) : rows[i].id = rows[j].id => i = j

\* the clock reading a timestamp stands for
TimeOf(text) ==
    IF Head(text) = "-" THEN 0 - DecimalValue(Tail(text))
    ELSE IF Head(text) = "+" THEN DecimalValue(Tail(text))
    ELSE DecimalValue(text)

\* the step is the handling of a request to the endpoint op
StepOf(op) == last'.op = op /\ now' = now /\ stats' = stats

\* the record a request asks to store, as the data model describes it
Inbound(r, id, receivedAt) ==
    [id |-> id,
     source |-> r.source,
     content_type |-> IF r.ctype = "" THEN OctetStream ELSE r.ctype,
     headers |-> StringifyHeaders(r),
     body |-> r.text,
     received_at |-> receivedAt]

\* C1: a GET /api/events/{id} right after an accepted POST /api/events
\* returns the record of the inbound request: the returned id and
\* received_at, the request's source, content type and headers, and the raw
\* payload as its body, whatever the content type.
C1_RoundTrip ==
    [][(/\ last.op = "ingest"
        /\ last.status = 201
        /\ StepOf("get")
        /\ last'.req.id = last.out.id)
       => /\ last'.status = 200
          /\ last'.out = Inbound(last.req, last.out.id, last.out.received_at)]_vars

\* C2: the outcome of POST /api/events depends on the size of the payload
\* only: up to 5 MB it is answered 201 and adds exactly one record, above
\* 5 MB it is answered 413 and the table is left as it was (the failures of
\* the store aside).
C2_SizeDecides ==
    [][(StepOf("ingest") /\ ~last'.storeErr)
       => IF last'.req.bytes <= FiveMb
          THEN /\ last'.status = 201
               /\ Len(events') = Len(events) + 1
               /\ SubSeq(events', 1, Len(events)) = events
               /\ events'[Len(events')].id = last'.out.id
          ELSE /\ last'.status = 413
               /\ events' = events]_vars

\* C3: for every value of limit and offset, the limit GET /api/events uses
\* and echoes is in 1..200 (200 for 500, 50 for 0, for a non-numeric value
\* and by default) and the offset is at least 0 (0 by default).
C3_Clamped ==
    (last.op = "list" /\ last.status = 200)
    => /\ 1 <= last.out.limit /\ last.out.limit <= 200
       /\ last.out.offset >= 0
       /\ last.req.limit = <<"5", "0", "0">> => last.out.limit = 200
       /\ last.req.limit \in {Absent, <<"0">>, <<"a", "b", "c">>}
             => last.out.limit = 50
       /\ last.req.offset = Absent => last.out.offset = 0

\* q occurs in s, the case of letters aside (the policy on case is open)
IsSubstring(q, s) ==
    \E k \in 0..(Len(s) - Len(q)) :
        \A i \in 1..Len(q) : FoldCase(s[k + i]) = FoldCase(q[i])

\* a record matches a filter: the source filter is empty or the record's
\* source, q is empty or occurs in the record's body or serialized headers
MatchesFilter(row, source, q) ==
    /\ (source = "" \/ row.source = source)
    /\ (q = <<>> \/ IsSubstring(q, row.body) \/ IsSubstring(q, row.headers))

\* the pages [off, off + lim) of the records of rows that match the
\* filter, taken in received_at descending order
PagesOf(rows, source, q, lim, off) ==
    LET matching == SelectSeq(rows, LAMBDA r : MatchesFilter(r, source, q))
        n == Len(matching)
        orders == {f \in [1..n -> 1..n] :
                     /\ \A i, j \in 1..n : i # j => f[i] # f[j]
                     /\ \A i, j \in 1..n :
                          i < j => TimeOf(matching[f[i]].received_at)
                                     >= TimeOf(matching[f[j]].received_at)}
        first == IF off < 0 THEN 0 ELSE off
        size == IF off + lim > n THEN n - first ELSE off + lim - first
    IN  {[i \in 1..size |-> PreviewRow(matching[f[first + i]])] : f \in orders}

\* C4: the items of GET /api/events are the page [offset, offset + limit)
\* of the records that match the filter, in received_at descending order:
\* no record that does not match, no more items than the limit (none for
\* a limit below 0), and item[i].received_at >= item[j].received_at for
\* i < j.
C4_Page ==
    [][(StepOf("list") /\ last'.status = 200)
       => LET items == last'.out.items IN
          /\ items \in PagesOf(events, last'.req.source, last'.req.q,
                               last'.out.limit, last'.out.offset)
          /\ Len(items) <= (IF last'.out.limit < 0 THEN 0 ELSE last'.out.limit)
          /\ \A i, j \in 1..Len(items) :
                i < j => TimeOf(items[i].received_at)
                           >= TimeOf(items[j].received_at)]_vars

\* C5: a purge that completes deletes exactly the records whose received_at
\* is strictly before the cutoff it reports, leaves the others as they
\* were and in place (a record received at the cutoff stays), and reports
\* the number of records it removed; the cutoff is a whole number of days,
\* at least one, before the clock's reading.
C5_PurgeExact ==
    [][(StepOf("purge") /\ last'.status = 200)
       => /\ events' = SelectSeq(events, LAMBDA r :
                           TimeOf(r.received_at) >= TimeOf(last'.out.cutoff))
          /\ last'.out.deleted_events = Len(events) - Len(events')
          /\ \E d \in 1..(now + 999) :
                TimeOf(last'.out.cutoff) = now - d * TicksPerDay]_vars

\* a purge has removed a record and left one received at its cutoff
C5_Witness ==
    /\ last.op = "purge"
    /\ last.status = 200
    /\ last.out.deleted_events >= 1
    /\ \E r \in Rows(events) : r.received_at = last.out.cutoff

\* C6 as stated: a purge run right after a completed purge with the same
\* days deletes no record and leaves the table as it was.
C6_Idempotent ==
    [][(StepOf("purge") /\ last'.status = 200 /\ last'.req.again)
       => /\ last'.out.deleted_events = 0
          /\ events' = events]_vars

\* C6, amended: a purge run right after a completed purge with the same
\* days deletes exactly the records received from the first cutoff on and
\* before its own cutoff; when the clock reads the same in both runs it
\* deletes no record and leaves the table as it was.
C6_IdempotentSameClock ==
    [][(StepOf("purge") /\ last'.status = 200 /\ last'.req.again)
       => /\ Rows(events) \ Rows(events')
               = {r \in Rows(events) :
                    /\ TimeOf(r.received_at) >= TimeOf(last.out.cutoff)
                    /\ TimeOf(r.received_at) < TimeOf(last'.out.cutoff)}
          /\ last'.out.deleted_events = Cardinality(Rows(events) \ Rows(events'))
          /\ last'.req.at = last.req.at
               => last'.out.deleted_events = 0 /\ events' = events]_vars

\* a purge has run right after a completed purge with the same days and
\* has removed none of the records left, one of them received at its cutoff
C6_Witness ==
    /\ last.op = "purge"
    /\ last.status = 200
    /\ last.req.again
    /\ last.out.deleted_events = 0
    /\ events # <<>>
    /\ \E r \in Rows(events) : r.received_at = last.out.cutoff

\* C7: for every value of days the purge completes, with an answer whose
\* cutoff is now - days * 24 h for a number of days of at least 1, which is
\* 7 when the parameter is absent (the failures of the store aside).
C7_DaysNeverFail ==
    (last.op = "purge" /\ ~last.storeErr)
    => /\ last.status = 200
       /\ \E d \in 1..(last.req.at + 999) :
             /\ TimeOf(last.out.cutoff) = last.req.at - d * TicksPerDay
             /\ last.req.days = Absent => d = 7

\* C8: a failure of a statement is answered 500 with the message of the
\* error, by every endpoint, and leaves the table as it was; a failed
\* insert is never answered 201.
C8_StoreFailure ==
    [][(last'.storeErr /\ now' = now)
       => /\ last'.status = 500
          /\ last'.msg
          /\ events' = events]_vars

\* C9: ids are unique; no step changes a record of the table; a record
\* leaves the table in a purge only and enters it in an accepted ingestion
\* only, under the id the answer gives; health, ping, list, get, preview
\* and stats leave the table as it was.
C9_Immutable ==
    [][/\ IdsUnique(events')
       /\ \A r \in Rows(events), n \in Rows(events') : n.id = r.id => n = r
       /\ (\E r \in Rows(events) : ~HasId(events', r.id)) => StepOf("purge")
       /\ \A n \in Rows(events') :
             ~HasId(events, n.id)
             => /\ StepOf("ingest")
                /\ last'.status = 201
                /\ n = BuildEvent(last'.req, last'.out.id,
                                  IngestMiddleware(last'.req).body, now)
                /\ Len(events') = Len(events) + 1
       /\ last'.op \in {"health", "ping", "list", "get", "preview", "stats"}
             => events' = events]_vars

\* an insert has failed while the table holds a record received earlier,
\* which is there as it was
C9_Witness ==
    /\ last.op = "ingest"
    /\ last.storeErr
    /\ Len(events) = 1
    /\ TimeOf(events[1].received_at) < now

RECURSIVE SumOfCounts(_)
SumOfCounts(bySource) ==
    IF bySource = <<>> THEN 0 ELSE Head(bySource).c + SumOfCounts(Tail(bySource))

\* C10: in every answer of GET /api/stats, total_events is the sum of the
\* counts of by_source, no source appears twice and the counts do not
\* increase along by_source.
C10_StatsConsistent ==
    (last.op = "stats" /\ last.status = 200)
    => LET by == last.out.by_source IN
       /\ last.out.total_events = SumOfCounts(by)
       /\ \A i, j \in 1..Len(by) : i # j => by[i].source # by[j].source
       /\ \A i, j \in 1..Len(by) : i < j => by[i].c >= by[j].c

=============================================================================
